---- MODULE Spec2Model ----
(***************************************************************************)
(* Model of piamv_console.py: the PIAM&V project console.  One JSON file   *)
(* per project under data/projects; every console command is one           *)
(* invocation that loads the record, changes it in memory and writes the   *)
(* whole record back.                                                      *)
(*                                                                         *)
(* Python strings are sequences of one-character strings, so that          *)
(* str.lower, str.strip, str.replace, ", ".join and the JSON string        *)
(* escaping are computed character by character.                           *)
(***************************************************************************)
EXTENDS Integers, Sequences, FiniteSets, TLC

VARIABLES files, now, result, project, inv, trace

vars == <<files, now, result, project, inv, trace>>

(***************************************************************************)
(* Bounds and inputs                                                       *)
(***************************************************************************)
\* The clock advances by one with every invocation, which reads now + 1 when
\* it calls utcnow(); no invocation starts once the clock has reached MaxTime.
MaxTime == 3

Procs == {1, 2}

\* Python's None (an optional argument that was not given).
None == <<"<None>">>

Names ==
  { <<"a", " ", "b">>, <<"a", "-", "b">>, <<" ", "c">> }

RuleArgs ==
  { [source |-> <<"I">>, title |-> <<"B">>, text |-> <<"x", "\"">>,
     section |-> None, page |-> <<"7">>] }

SourceArgs ==
  { [name |-> <<"d">>, path |-> <<"C", "\\", "d">>, notes |-> None] }

ArgScopingLower == <<"p","r","o","j","e","c","t"," ","s","c","o","p","i","n","g">>
ArgBaselineUpper == <<"B","A","S","E","L","I","N","E"," ","D","E","F","I","N","I","T","I","O","N">>
ArgNoSuchStep == <<"B","a","s","e","l","i","n","e">>

StepNameArgs == {ArgScopingLower, ArgBaselineUpper, ArgNoSuchStep}

NotesArgs == {None, <<"k">>}

(***************************************************************************)
(* String functions                                                        *)
(***************************************************************************)
\* the list given by an index-to-item mapping, as a tuple
List(f) == f \o <<>>

SetMin(S) == CHOOSE x \in S : \A y \in S : x <= y

SetMax(S) == CHOOSE x \in S : \A y \in S : x >= y

Whitespace == {" ", "\t", "\n", "\r"}

LowerMap ==
  [A |-> "a", B |-> "b", C |-> "c", D |-> "d", E |-> "e", F |-> "f",
   G |-> "g", H |-> "h", I |-> "i", J |-> "j", K |-> "k", L |-> "l",
   M |-> "m", N |-> "n", O |-> "o", P |-> "p", Q |-> "q", R |-> "r",
   S |-> "s", T |-> "t", U |-> "u", V |-> "v", W |-> "w", X |-> "x",
   Y |-> "y", Z |-> "z"]

\* str.lower()
Lower(s) ==
  List([i \in 1..Len(s) |-> IF s[i] \in DOMAIN LowerMap THEN LowerMap[s[i]] ELSE s[i]])

\* str.strip()
Strip(s) ==
  LET keep == {i \in 1..Len(s) : s[i] \notin Whitespace}
  IN  IF keep = {} THEN <<>> ELSE SubSeq(s, SetMin(keep), SetMax(keep))

\* str.replace(" ", "-")
ReplaceSpaces(s) ==
  List([i \in 1..Len(s) |-> IF s[i] = " " THEN "-" ELSE s[i]])

\* x or y, for x a string or None
OrElse(x, y) == IF x = None \/ x = <<>> THEN y ELSE x

RECURSIVE Join(_, _)
\* sep.join(parts)
Join(sep, parts) ==
  IF parts = <<>> THEN <<>>
  ELSE IF Len(parts) = 1 THEN parts[1]
  ELSE parts[1] \o sep \o Join(sep, Tail(parts))

CommaSpace == <<",", " ">>

Digit == <<"0", "1", "2", "3", "4", "5", "6", "7", "8", "9">>

RECURSIVE Decimal(_)
Decimal(n) ==
  IF n < 10 THEN <<Digit[n + 1]>> ELSE Decimal(n \div 10) \o <<Digit[(n % 10) + 1]>>

\* datetime.utcnow().isoformat() at clock reading t
IsoFormat(t) == <<"T">> \o Decimal(t)

(***************************************************************************)
(* JSON text of a string                                                   *)
(***************************************************************************)
RECURSIVE JsonEscape(_)
\* the characters between the quotes of the JSON string literal of s
JsonEscape(s) ==
  IF s = <<>> THEN <<>>
  ELSE (IF Head(s) \in {"\"", "\\"} THEN <<"\\", Head(s)>> ELSE <<Head(s)>>)
       \o JsonEscape(Tail(s))

RECURSIVE JsonUnescape(_)
\* the string whose JSON string literal has s between its quotes
JsonUnescape(s) ==
  IF s = <<>> THEN <<>>
  ELSE IF Head(s) = "\\" /\ Len(s) >= 2
       THEN <<s[2]>> \o JsonUnescape(Tail(Tail(s)))
       ELSE <<Head(s)>> \o JsonUnescape(Tail(s))

JsonString(s) == <<"\"">> \o JsonEscape(s) \o <<"\"">>

JsonParseString(t) == JsonUnescape(SubSeq(t, 2, Len(t) - 1))

(***************************************************************************)
(* Data model                                                              *)
(***************************************************************************)
Pending == <<"p","e","n","d","i","n","g">>
InProgress == <<"i","n","_","p","r","o","g","r","e","s","s">>
Complete == <<"c","o","m","p","l","e","t","e">>

\* choices of the --status argument
Statuses == {Pending, InProgress, Complete}

PIAMV == <<"P","I","A","M","&","V">>

StepScoping == <<"P","r","o","j","e","c","t"," ","s","c","o","p","i","n","g">>
StepBaseline == <<"B","a","s","e","l","i","n","e"," ","d","e","f","i","n","i","t","i","o","n">>
StepPlan == <<"M","e","a","s","u","r","e","m","e","n","t"," ","&"," ","v","e","r","i","f","i","c","a","t","i","o","n"," ","p","l","a","n">>
StepImplementation == <<"I","m","p","l","e","m","e","n","t","a","t","i","o","n"," ","&"," ","c","o","m","m","i","s","s","i","o","n","i","n","g">>
StepData == <<"D","a","t","a"," ","c","o","l","l","e","c","t","i","o","n">>
StepAnalysis == <<"A","n","a","l","y","s","i","s"," ","&"," ","s","a","v","i","n","g","s"," ","c","a","l","c","u","l","a","t","i","o","n">>
StepReporting == <<"R","e","p","o","r","t","i","n","g"," ","&"," ","a","s","s","u","r","a","n","c","e">>

DEFAULT_PIAMV_STEPS ==
  <<StepScoping, StepBaseline, StepPlan, StepImplementation, StepData,
    StepAnalysis, StepReporting>>

\* Rule(source, title, text, section, page) with created_at from the clock
Rule(a, t) ==
  [source |-> a.source, title |-> a.title, text |-> a.text,
   section |-> OrElse(a.section, <<>>), page |-> OrElse(a.page, <<>>),
   created_at |-> IsoFormat(t)]

\* SourceDocument(name, path, notes) with added_at from the clock
SourceDocument(a, t) ==
  [name |-> a.name, path |-> a.path, notes |-> OrElse(a.notes, <<>>),
   added_at |-> IsoFormat(t)]

\* ProjectStep(name=step): status and notes take their defaults
ProjectStep(name) == [name |-> name, status |-> Pending, notes |-> <<>>]

(***************************************************************************)
(* Serialization.  A dict is a sequence of <<key, value>> pairs in         *)
(* insertion order; the file holds the dict with every string written as   *)
(* a JSON string literal.                                                  *)
(***************************************************************************)
HasKey(d, k) == \E i \in DOMAIN d : d[i][1] = k

\* d[k]
Item(d, k) == d[CHOOSE i \in DOMAIN d : d[i][1] = k][2]

\* d.get(k, default)
Get(d, k, default) == IF HasKey(d, k) THEN Item(d, k) ELSE default

\* RuleDict without the created_at field
RuleDict_NoTimestamp(r) ==
  << <<"source", r.source>>, <<"title", r.title>>, <<"text", r.text>>,
     <<"section", r.section>>, <<"page", r.page>> >>

\* rule.__dict__
RuleDict(r) ==
  << <<"source", r.source>>, <<"title", r.title>>, <<"text", r.text>>,
     <<"section", r.section>>, <<"page", r.page>>,
     <<"created_at", r.created_at>> >>

\* step.__dict__
StepDict(s) ==
  << <<"name", s.name>>, <<"status", s.status>>, <<"notes", s.notes>> >>

\* source.__dict__
SourceDict(s) ==
  << <<"name", s.name>>, <<"path", s.path>>, <<"notes", s.notes>>,
     <<"added_at", s.added_at>> >>

\* Project.to_dict
ToDict(p) ==
  << <<"name", p.name>>,
     <<"project_type", p.project_type>>,
     <<"created_at", p.created_at>>,
     <<"rules", List([i \in 1..Len(p.rules) |-> RuleDict(p.rules[i])])>>,
     <<"steps", List([i \in 1..Len(p.steps) |-> StepDict(p.steps[i])])>>,
     <<"sources", List([i \in 1..Len(p.sources) |-> SourceDict(p.sources[i])])>> >>

\* Rule(**rule): absent keys take the dataclass defaults
RuleFromDict(d, t) ==
  [source |-> Item(d, "source"), title |-> Item(d, "title"),
   text |-> Item(d, "text"), section |-> Get(d, "section", <<>>),
   page |-> Get(d, "page", <<>>),
   created_at |-> Get(d, "created_at", IsoFormat(t))]

\* ProjectStep(**step)
StepFromDict(d) ==
  [name |-> Item(d, "name"), status |-> Get(d, "status", Pending),
   notes |-> Get(d, "notes", <<>>)]

\* SourceDocument(**source)
SourceFromDict(d, t) ==
  [name |-> Item(d, "name"), path |-> Item(d, "path"),
   notes |-> Get(d, "notes", <<>>),
   added_at |-> Get(d, "added_at", IsoFormat(t))]

\* Project.from_dict; t is the clock reading at the call
FromDict(payload, t) ==
  LET rules == Get(payload, "rules", <<>>)
      steps == Get(payload, "steps", <<>>)
      sources == Get(payload, "sources", <<>>)
  IN  [name |-> Item(payload, "name"),
       project_type |-> Item(payload, "project_type"),
       created_at |-> Item(payload, "created_at"),
       rules |-> List([i \in 1..Len(rules) |-> RuleFromDict(rules[i], t)]),
       steps |-> List([i \in 1..Len(steps) |-> StepFromDict(steps[i])]),
       sources |-> List([i \in 1..Len(sources) |-> SourceFromDict(sources[i], t)])]

ListKeys == {"rules", "steps", "sources"}

DumpObject(d) == List([i \in 1..Len(d) |-> <<d[i][1], JsonString(d[i][2])>>])

ParseObject(d) == List([i \in 1..Len(d) |-> <<d[i][1], JsonParseString(d[i][2])>>])

\* json.dumps(payload, indent=2)
JsonDumps(payload) ==
  List([i \in 1..Len(payload) |->
     <<payload[i][1],
       IF payload[i][1] \in ListKeys
       THEN List([j \in 1..Len(payload[i][2]) |-> DumpObject(payload[i][2][j])])
       ELSE JsonString(payload[i][2])>>])

\* json.loads(text)
JsonLoads(text) ==
  List([i \in 1..Len(text) |->
     <<text[i][1],
       IF text[i][1] \in ListKeys
       THEN List([j \in 1..Len(text[i][2]) |-> ParseObject(text[i][2][j])])
       ELSE JsonParseString(text[i][2])>>])

(***************************************************************************)
(* The store: files maps the path of every existing file to its text       *)
(***************************************************************************)
DATA_DIR == <<"d","a","t","a","/","p","r","o","j","e","c","t","s">>

JsonSuffix == <<".", "j", "s", "o", "n">>

project_path(name) ==
  DATA_DIR \o <<"/">> \o ReplaceSpaces(Strip(name)) \o JsonSuffix

PathExists(fs, path) == path \in DOMAIN fs

WriteText(fs, path, text) ==
  [q \in DOMAIN fs \cup {path} |-> IF q = path THEN text ELSE fs[q]]

\* load_project, for a name whose file exists
load_project(fs, name, t) ==
  CHOOSE p \in {FromDict(payload, t) :
                  payload \in {JsonLoads(fs[project_path(name)])}} : TRUE

\* save_project that does not replace a file that is already there
save_project_KeepsExisting(fs, p) ==
  IF PathExists(fs, project_path(p.name))
  THEN fs
  ELSE WriteText(fs, project_path(p.name), JsonDumps(ToDict(p)))

\* save_project: the store after the write
save_project(fs, p) ==
  CHOOSE w \in {WriteText(fs, project_path(p.name), JsonDumps(payload)) :
                  payload \in {ToDict(p)}} : TRUE

(***************************************************************************)
(* In-memory changes made by the handlers                                  *)
(***************************************************************************)
\* NewProject with the last step left out (range short by one)
NewProject_DropsLast(name, t) ==
  [name |-> name, project_type |-> PIAMV, created_at |-> IsoFormat(t),
   rules |-> <<>>,
   steps |-> List([i \in 1..(Len(DEFAULT_PIAMV_STEPS) - 1) |-> ProjectStep(DEFAULT_PIAMV_STEPS[i])]),
   sources |-> <<>>]

\* the Project built by init_project at clock reading t
NewProject(name, t) ==
  [name |-> name, project_type |-> PIAMV, created_at |-> IsoFormat(t),
   rules |-> <<>>,
   steps |-> List([i \in 1..Len(DEFAULT_PIAMV_STEPS) |-> ProjectStep(DEFAULT_PIAMV_STEPS[i])]),
   sources |-> <<>>]

\* AppendRule inserting at the head instead of the tail
AppendRule_Prepend(p, a, t) == [p EXCEPT !.rules = <<Rule(a, t)>> \o p.rules]

\* project.rules.append(rule)
AppendRule(p, a, t) == [p EXCEPT !.rules = Append(p.rules, Rule(a, t))]

\* project.sources.append(source)
AppendSource(p, a, t) == [p EXCEPT !.sources = Append(p.sources, SourceDocument(a, t))]

\* StepMatches accepting a name that starts with the argument
StepMatches_Prefix(step, arg) ==
  /\ Len(arg) <= Len(step.name)
  /\ SubSeq(Lower(step.name), 1, Len(arg)) = Lower(arg)

\* step.name.lower() == args.step.lower()
StepMatches(step, arg) == Lower(step.name) = Lower(arg)

\* positions of the steps the loop of update_step would accept
MatchingSteps(p, arg) == {i \in 1..Len(p.steps) : StepMatches(p.steps[i], arg)}

\* NewNotes without the fallback to the previous notes
NewNotes_Overwrite(argNotes, oldNotes) == OrElse(argNotes, <<>>)

\* step.notes = args.notes or step.notes
NewNotes(argNotes, oldNotes) == OrElse(argNotes, oldNotes)

\* SetStep assigning the status before the name test, to every step visited
SetStep_All(p, i, a) ==
  [p EXCEPT !.steps =
     List([j \in 1..Len(p.steps) |->
        IF j = i
        THEN [name |-> p.steps[j].name, status |-> a.status,
              notes |-> NewNotes(a.notes, p.steps[j].notes)]
        ELSE IF j < i
        THEN [name |-> p.steps[j].name, status |-> a.status,
              notes |-> p.steps[j].notes]
        ELSE p.steps[j]])]

\* body of the loop of update_step for the first matching step i
SetStep(p, i, a) ==
  [p EXCEPT !.steps =
     List([j \in 1..Len(p.steps) |->
        IF j = i
        THEN [name |-> p.steps[j].name, status |-> a.status,
              notes |-> NewNotes(a.notes, p.steps[j].notes)]
        ELSE p.steps[j]])]

\* ", ".join(step.name for step in project.steps)
Available(p) == Join(CommaSpace, List([i \in 1..Len(p.steps) |-> p.steps[i].name]))

\* the --status values tried: a step is completed and reset to pending
StatusArgs == Statuses \ {InProgress}

StepArgs == [step : StepNameArgs, status : StatusArgs, notes : NotesArgs]

(***************************************************************************)
(* Invocations run one after another: each action is one whole command     *)
(***************************************************************************)
NoResult == [cmd |-> "", name |-> <<>>, args |-> <<>>, exit |-> "", detail |-> <<>>]

\* the command line of the invocation, how it ended and what it reported
Exit(cmd, name, args, exit, detail) ==
  [cmd |-> cmd, name |-> name, args |-> args, exit |-> exit, detail |-> detail]

\* raise SystemExit(...): nothing is written
Fails(cmd, name, args, exit, detail) ==
  /\ result' = Exit(cmd, name, args, exit, detail)
  /\ project' = {}
  /\ UNCHANGED files

\* save_project(project) and the final print of a handler
Saves(cmd, name, args, p) ==
  /\ files' = save_project(files, p)
  /\ project' = {p}
  /\ result' = Exit(cmd, name, args, "ok", <<>>)

Tick ==
  /\ now < MaxTime
  /\ now' = now + 1
  /\ UNCHANGED <<inv, trace>>

\* init_project without the test for an existing record
init_project_Overwrites(n) ==
  /\ Tick
  /\ \E p \in {NewProject(n, now + 1)} : Saves("init", n, <<>>, p)

init_project(n) ==
  /\ Tick
  /\ IF PathExists(files, project_path(n))
     THEN Fails("init", n, <<>>, "AlreadyExists", <<>>)
     ELSE \E p \in {NewProject(n, now + 1)} : Saves("init", n, <<>>, p)

add_rule(n, a) ==
  /\ Tick
  /\ IF ~PathExists(files, project_path(n))
     THEN Fails("add-rule", n, <<a>>, "NotFound", project_path(n))
     ELSE \E loaded \in {load_project(files, n, now + 1)} :
          \E p \in {AppendRule(loaded, a, now + 1)} :
             Saves("add-rule", n, <<a>>, p)

\* add_source starting a fresh project when the record is missing
add_source_CreatesMissing(n, a) ==
  /\ Tick
  /\ \E loaded \in {IF PathExists(files, project_path(n))
                    THEN load_project(files, n, now + 1)
                    ELSE NewProject(n, now + 1)} :
     \E p \in {AppendSource(loaded, a, now + 1)} :
        Saves("add-source", n, <<a>>, p)

add_source(n, a) ==
  /\ Tick
  /\ IF ~PathExists(files, project_path(n))
     THEN Fails("add-source", n, <<a>>, "NotFound", project_path(n))
     ELSE \E loaded \in {load_project(files, n, now + 1)} :
          \E p \in {AppendSource(loaded, a, now + 1)} :
             Saves("add-source", n, <<a>>, p)

update_step(n, a) ==
  /\ Tick
  /\ IF ~PathExists(files, project_path(n))
     THEN Fails("step", n, <<a>>, "NotFound", project_path(n))
     ELSE \E loaded \in {load_project(files, n, now + 1)} :
          \E found \in {MatchingSteps(loaded, a.step)} :
             IF found = {}
             THEN Fails("step", n, <<a>>, "StepNotFound", Available(loaded))
             ELSE \E p \in {SetStep(loaded, SetMin(found), a)} :
                     Saves("step", n, <<a>>, p)

\* list_rules, list_sources and show_project load and print
ReadOnly(cmd, n) ==
  /\ Tick
  /\ IF ~PathExists(files, project_path(n))
     THEN Fails(cmd, n, <<>>, "NotFound", project_path(n))
     ELSE /\ project' = {load_project(files, n, now + 1)}
          /\ result' = Exit(cmd, n, <<>>, "ok", <<>>)
          /\ UNCHANGED files

list_rules(n) == ReadOnly("list-rules", n)

list_sources(n) == ReadOnly("list-sources", n)

show_project(n) == ReadOnly("show", n)

\* an invocation that has not started: no command, nothing loaded
Idle ==
  [pc |-> "idle", cmd |-> "", name |-> <<>>, args |-> <<>>, t |-> 0,
   payload |-> <<>>, project |-> <<>>, exit |-> ""]

Init ==
  /\ files = [q \in {} |-> <<>>]
  /\ now = 0
  /\ result = NoResult
  /\ project = {}
  /\ inv = [i \in Procs |-> Idle]
  /\ trace = <<>>

Next ==
  \/ \E n \in Names : init_project(n)
  \/ \E n \in Names, a \in RuleArgs : add_rule(n, a)
  \/ \E n \in Names, a \in SourceArgs : add_source(n, a)
  \/ \E n \in Names, a \in StepArgs : update_step(n, a)
  \/ \E n \in Names : list_rules(n)
  \/ \E n \in Names : list_sources(n)
  \/ \E n \in Names : show_project(n)

Spec == Init /\ [][Next]_vars

(***************************************************************************)
(* Two invocations at once.  An invocation is two steps, the read of the   *)
(* file in load_project and the write of the file in save_project; what    *)
(* lies between them touches only the invocation's own memory and belongs  *)
(* to the first step.  The store starts as init --name "a b" leaves it.    *)
(***************************************************************************)
RaceProject == <<"a", " ", "b">>

Writers == {"add-rule", "add-source", "step"}

ArgsOf(cmd) ==
  IF cmd = "add-rule" THEN RuleArgs
  ELSE IF cmd = "add-source" THEN SourceArgs
  ELSE StepArgs

\* what the handler of cmd does to the loaded project before it saves
Change(cmd, a, p, t) ==
  IF cmd = "add-rule" THEN AppendRule(p, a, t)
  ELSE IF cmd = "add-source" THEN AppendSource(p, a, t)
  ELSE SetStep(p, SetMin(MatchingSteps(p, a.step)), a)

\* load_project and the handler's code up to its call of save_project
Launch(i, cmd, n, a) ==
  /\ inv[i].pc = "idle"
  /\ now' = now + 1
  /\ trace' = Append(trace, <<i, "load">>)
  /\ UNCHANGED <<files, result, project>>
  /\ LET started == [Idle EXCEPT !.cmd = cmd, !.name = n, !.args = <<a>>,
                                 !.t = now + 1]
     IN  IF ~PathExists(files, project_path(n))
         THEN inv' = [inv EXCEPT ![i] =
                        [started EXCEPT !.pc = "failed", !.exit = "NotFound"]]
         ELSE LET text == files[project_path(n)]
                  loaded == FromDict(JsonLoads(text), now + 1)
              IN  IF cmd = "step" /\ MatchingSteps(loaded, a.step) = {}
                  THEN inv' = [inv EXCEPT ![i] =
                                 [started EXCEPT !.pc = "failed",
                                                 !.payload = <<text>>,
                                                 !.exit = "StepNotFound"]]
                  ELSE inv' = [inv EXCEPT ![i] =
                                 [started EXCEPT !.pc = "loaded",
                                                 !.payload = <<text>>,
                                                 !.project = <<Change(cmd, a, loaded, now + 1)>>]]

\* save_project and the end of the handler
Write(i) ==
  /\ inv[i].pc = "loaded"
  /\ files' = save_project(files, inv[i].project[1])
  /\ inv' = [inv EXCEPT ![i] = [@ EXCEPT !.pc = "done", !.exit = "ok"]]
  /\ trace' = Append(trace, <<i, "save">>)
  /\ UNCHANGED <<now, result, project>>

InitRace ==
  /\ files = save_project([q \in {} |-> <<>>], NewProject(RaceProject, 1))
  /\ now = 1
  /\ result = Exit("init", RaceProject, <<>>, "ok", <<>>)
  /\ project = {NewProject(RaceProject, 1)}
  /\ inv = [i \in Procs |-> Idle]
  /\ trace = <<>>

NextRace ==
  \/ \E i \in Procs, cmd \in Writers, n \in Names :
        \E a \in ArgsOf(cmd) : Launch(i, cmd, n, a)
  \/ \E i \in Procs : Write(i)

SpecRace == InitRace /\ [][NextRace]_vars

(***************************************************************************)
(* Properties                                                              *)
(***************************************************************************)
\* the aggregate a load of the record at path returns
Record(fs, path) == FromDict(JsonLoads(fs[path]), 0)

\* the persisted list under key of the record at path
Persisted(fs, path, key) == Item(fs[path], key)

IsPrefix(s, t) == Len(s) <= Len(t) /\ SubSeq(t, 1, Len(s)) = s

\* an invocation has run in this step
Invoked == now' # now

CanonicalNames ==
  << StepScoping, StepBaseline, StepPlan, StepImplementation, StepData,
     StepAnalysis, StepReporting >>

\* C1: after a successful init of a name, loading that name gives the seven
\* canonical steps in canonical order, all pending, and no rules or sources.
C1_CreateThenLoad ==
  (result.cmd = "init" /\ result.exit = "ok") =>
     \A p \in {load_project(files, result.name, now + 1)} :
         /\ Len(p.steps) = 7
         /\ \A i \in 1..7 :
               /\ p.steps[i].name = CanonicalNames[i]
               /\ p.steps[i].status = Pending
         /\ p.rules = <<>>
         /\ p.sources = <<>>

C1_Witness ==
  /\ result.cmd = "init"
  /\ result.exit = "ok"
  /\ Cardinality(DOMAIN files) = 2

\* C2: an init of a name whose record exists fails with AlreadyExists and
\* leaves every persisted record exactly as it was.
C2_SecondCreateFails ==
  [][(Invoked /\ result'.cmd = "init"
        /\ PathExists(files, project_path(result'.name)))
       => (result'.exit = "AlreadyExists" /\ files' = files)]_vars

C2_Witness ==
  /\ result.cmd = "init"
  /\ result.exit = "AlreadyExists"
  /\ Len(Record(files, project_path(result.name)).rules) > 0

\* C3: distinct names have separate records: an init fails with
\* AlreadyExists only when a record of that very name exists, and a
\* successful load of a name returns the project of that name.
C3_DistinctNamesSeparateRecords ==
  /\ (result.cmd = "init" /\ result.exit = "AlreadyExists") =>
        \E q \in DOMAIN files : Record(files, q).name = result.name
  /\ (result.cmd = "show" /\ result.exit = "ok") =>
        \A p \in project : p.name = result.name

\* no step of p has the name arg, compared case-insensitively
NoStepNamed(p, arg) ==
  \A i \in 1..Len(p.steps) : Lower(p.steps[i].name) # Lower(arg)

StepNames(p) == List([i \in 1..Len(p.steps) |-> p.steps[i].name])

\* C4: a step update whose step name matches no step of the project fails
\* with StepNotFound, writes nothing, and reports the step names in storage
\* order.
C4_StepNotFoundWritesNothing ==
  [][(Invoked /\ result'.cmd = "step"
        /\ PathExists(files, project_path(result'.name)))
       => \A before \in {Record(files, project_path(result'.name))} :
             NoStepNamed(before, result'.args[1].step)
                => /\ result'.exit = "StepNotFound"
                   /\ files' = files
                   /\ Record(files', project_path(result'.name)) = before
                   /\ result'.detail = Join(CommaSpace, StepNames(before))]_vars

C4_Witness ==
  /\ result.cmd = "step"
  /\ result.exit = "StepNotFound"
  /\ \E i \in 1..7 :
        Record(files, project_path(result.name)).steps[i].status # Pending

\* C5: a successful step update changes only the status and notes of the
\* one step whose name matches; the rest of the record and every other
\* record stay as they were.
C5_UpdateStepFrame ==
  [][(Invoked /\ result'.cmd = "step" /\ result'.exit = "ok")
       => \A path \in {project_path(result'.name)} :
          \A before \in {Record(files, path)}, after \in {Record(files', path)} :
              /\ DOMAIN files' = DOMAIN files
              /\ \A q \in DOMAIN files \ {path} : files'[q] = files[q]
              /\ \E i \in 1..Len(before.steps) :
                    /\ Lower(before.steps[i].name) = Lower(result'.args[1].step)
                    /\ after =
                         [before EXCEPT
                            !.steps = [before.steps EXCEPT
                                         ![i] = [name |-> before.steps[i].name,
                                                 status |-> after.steps[i].status,
                                                 notes |-> after.steps[i].notes]]]]_vars

C5_Witness ==
  /\ result.cmd = "step"
  /\ result.exit = "ok"
  /\ LET p == Record(files, project_path(result.name))
     IN  \E i, j \in 1..7 :
            /\ i # j
            /\ Lower(p.steps[i].name) = Lower(result.args[1].step)
            /\ p.steps[j].status # Pending

\* C6: no invocation shortens a persisted rules or sources list or changes
\* an entry already in it; a successful add-rule (add-source) adds exactly
\* one entry at the tail of rules (sources).
C6_AppendMonotonic ==
  [][/\ \A q \in DOMAIN files :
           /\ q \in DOMAIN files'
           /\ IsPrefix(Persisted(files, q, "rules"), Persisted(files', q, "rules"))
           /\ IsPrefix(Persisted(files, q, "sources"), Persisted(files', q, "sources"))
     /\ (Invoked /\ result'.cmd = "add-rule" /\ result'.exit = "ok") =>
           \A q \in {project_path(result'.name)} :
           \A after \in {Record(files', q)} :
               /\ Len(after.rules) = Len(Persisted(files, q, "rules")) + 1
               /\ after.rules[Len(after.rules)] = Rule(result'.args[1], now')
               /\ Persisted(files', q, "sources") = Persisted(files, q, "sources")
     /\ (Invoked /\ result'.cmd = "add-source" /\ result'.exit = "ok") =>
           \A q \in {project_path(result'.name)} :
           \A after \in {Record(files', q)} :
               /\ Len(after.sources) = Len(Persisted(files, q, "sources")) + 1
               /\ after.sources[Len(after.sources)] = SourceDocument(result'.args[1], now')
               /\ Persisted(files', q, "rules") = Persisted(files, q, "rules")]_vars

C6_Witness ==
  /\ result.cmd = "add-rule"
  /\ result.exit = "ok"
  /\ Len(Persisted(files, project_path(result.name), "rules")) = 2

\* C7: every command but init, run for a name whose record does not exist,
\* fails with NotFound, creates no record and changes none.
C7_NotFound ==
  [][(/\ Invoked
      /\ result'.cmd \in {"add-rule", "add-source", "step", "list-rules",
                          "list-sources", "show"}
      /\ ~PathExists(files, project_path(result'.name)))
       => (result'.exit = "NotFound" /\ files' = files)]_vars

C7_Witness ==
  /\ result.cmd = "add-source"
  /\ result.exit = "NotFound"
  /\ DOMAIN files # {}

\* C8: after an invocation has saved its project, a load of the project's
\* name returns an aggregate equal to the one in memory at the save.
C8_RoundTrip ==
  (result.exit = "ok" /\ result.cmd \in {"init", "add-rule", "add-source", "step"})
     => \A p \in project : load_project(files, p.name, now + 1) = p

C8_Witness ==
  /\ result.cmd = "add-rule"
  /\ result.exit = "ok"
  /\ \E p \in project : \E i \in 1..7 :
        /\ p.steps[i].notes # <<>>
        /\ \E j \in 1..Len(p.rules[1].text) : p.rules[1].text[j] = "\""

FirstMatch(p, arg) ==
  SetMin({i \in 1..Len(p.steps) : Lower(p.steps[i].name) = Lower(arg)})

\* C9: a successful step update sets the matched step's status to the
\* given status, and its notes to the given notes when these are non-empty
\* and to the previous notes otherwise; no invocation empties notes that
\* were set.
C9_StatusAndNotes ==
  [][/\ (Invoked /\ result'.cmd = "step" /\ result'.exit = "ok") =>
           \A path \in {project_path(result'.name)}, a \in {result'.args[1]} :
           \A before \in {Record(files, path)}, after \in {Record(files', path)} :
           \A i \in {FirstMatch(before, a.step)} :
               /\ after.steps[i].status = a.status
               /\ after.steps[i].notes =
                    IF a.notes = None \/ a.notes = <<>>
                    THEN before.steps[i].notes
                    ELSE a.notes
     /\ files' # files =>
           \A q \in DOMAIN files :
           \A before \in {Persisted(files, q, "steps")} :
           \A after \in {Persisted(files', q, "steps")} :
           \A i \in 1..Len(before) :
              Item(before[i], "notes") # JsonString(<<>>)
                 => Item(after[i], "notes") # JsonString(<<>>)]_vars

C9_Witness ==
  /\ result.cmd = "step"
  /\ result.exit = "ok"
  /\ result.args[1].notes = None
  /\ result.args[1].status = Pending
  /\ LET p == Record(files, project_path(result.name))
     IN  p.steps[FirstMatch(p, result.args[1].step)].notes = <<"k">>

\* both invocations wrote the same file, and both had loaded before either
\* wrote
Raced ==
  /\ \A i \in Procs : inv[i].pc = "done"
  /\ Len(trace) = 4
  /\ trace[1][2] = "load"
  /\ trace[2][2] = "load"

\* C10: when two invocations on one project both load before either saves,
\* the record left behind is the whole aggregate of the later save, which is
\* the record both loaded with the later invocation's change alone; the
\* earlier writer's rule, source or step update is not in it.
C10_LastWriterWins ==
  Raced =>
    \A early \in {trace[3][1]}, late \in {trace[4][1]} :
    \A path \in {project_path(inv[late].name)} :
    \A base \in {FromDict(JsonLoads(inv[early].payload[1]), 0)} :
    \A final \in {FromDict(JsonLoads(files[path]), 0)} :
       /\ files[path] = JsonDumps(ToDict(inv[late].project[1]))
       /\ final = Change(inv[late].cmd, inv[late].args[1], base, inv[late].t)
       /\ inv[early].cmd = "add-rule" =>
             \A k \in 1..Len(final.rules) :
                final.rules[k].created_at # IsoFormat(inv[early].t)
       /\ inv[early].cmd = "add-source" =>
             \A k \in 1..Len(final.sources) :
                final.sources[k].added_at # IsoFormat(inv[early].t)
       /\ inv[early].cmd = "step" =>
             \A k \in {FirstMatch(base, inv[early].args[1].step)} :
                (inv[late].cmd = "step"
                   /\ FirstMatch(base, inv[late].args[1].step) = k)
                \/ final.steps[k] = base.steps[k]

C10_Witness ==
  /\ Raced
  /\ inv[trace[3][1]].cmd = "add-rule"
  /\ inv[trace[4][1]].cmd = "step"
  /\ Record(files, project_path(RaceProject)).rules = <<>>
  /\ \E i \in 1..7 :
        Record(files, project_path(RaceProject)).steps[i].status = Complete

====
